---- MODULE Spec2Model ----
(***************************************************************************)
(* purei9_unofficial, cloud API v1 (src/src/purei9_unofficial/cloud.py):   *)
(* CloudRobot's cached snapshot reads, its cleaning and power mode         *)
(* commands over the websocket, and the cursor-following retrieval of the  *)
(* cleaning history.                                                       *)
(*                                                                         *)
(* The program is single-threaded and synchronous: one operation runs at a *)
(* time.  Each operation is one action; what the network and the backend   *)
(* answer is drawn with \E.  getCleaningSessions, whose length depends on  *)
(* the backend's answers, advances one page response at a time.            *)
(***************************************************************************)
EXTENDS Integers, Sequences, FiniteSets, TLC

\* ------------------------------------------------------------ bounds

\* Fetches counted per handle between two command issuances.
MaxFetch == 3

\* Page requests followed within one getCleaningSessions call.
MaxRequests == 3

\* History items the backend serves, over all pages, during one call.
MaxItems == 3

\* Maps of one listing of the backend.
MaxMaps == 2

\* ------------------------------------------------------------ JSON values

\* Python's None (also what a JSON null decodes to).
None == [t |-> "none"]
JInt(n) == [t |-> "int", v |-> n]
JBool(b) == [t |-> "bool", v |-> b]
JStr(x) == [t |-> "str", v |-> x]

\* ------------------------------------------------------------ PowerMode enum

PowerModes == {"LOW", "MEDIUM", "HIGH"}

\* mode.value
PowerModeValue(mode) ==
    CASE mode = "LOW" -> 1
      [] mode = "MEDIUM" -> 2
      [] mode = "HIGH" -> 3

\* PowerMode(code): the enum member of a code; any other code raises ValueError.
PowerModeOf(code) ==
    CASE code = 1 -> "LOW"
      [] code = 2 -> "MEDIUM"
      [] code = 3 -> "HIGH"
      [] OTHER -> "ValueError"

\* ------------------------------------------------------------ backend robot state

Handles == {"h1"}

\* RobotStatus codes the backend reports (two of them stand for all).
StatusCodes == {1, 10}

\* The PowerMode / EcoMode fields a robot's AppUpdate answer may carry: none,
\* a JSON null, or a value.  A sequence of length 0 is "the key is absent".
PowerModeFields == {<<>>, <<None>>, <<JInt(1)>>, <<JInt(2)>>, <<JInt(3)>>}
EcoModeFields == {<<>>, <<None>>, <<JBool(TRUE)>>, <<JBool(FALSE)>>}

BaseKeys == {"RobotStatus", "RobotName", "FirmwareVersion", "BatteryStatus",
             "Connected", "LocalRobotPassword"}

\* The JSON object /robots/AppUpdate answers with.
RobotJson(status, pm, eco) ==
    [k \in BaseKeys \cup (IF pm = <<>> THEN {} ELSE {"PowerMode"})
                    \cup (IF eco = <<>> THEN {} ELSE {"EcoMode"}) |->
        CASE k = "RobotStatus" -> JInt(status)
          [] k = "RobotName" -> [t |-> "str", v |-> "robot"]
          [] k = "FirmwareVersion" -> [t |-> "str", v |-> "fw"]
          [] k = "BatteryStatus" -> JInt(6)
          [] k = "Connected" -> JBool(TRUE)
          [] k = "LocalRobotPassword" -> [t |-> "str", v |-> "pw"]
          [] k = "PowerMode" -> pm[1]
          [] k = "EcoMode" -> eco[1]]

RobotJsons ==
    {RobotJson(s, pm, eco) : s \in StatusCodes, pm \in PowerModeFields, eco \in EcoModeFields}

\* ------------------------------------------------------------ state

VARIABLES
    robot,        \* the backend's state of the robot: the JSON object AppUpdate returns
    pending,      \* the backend's way with commands: Sync, or what it holds back
    cache_data,   \* per handle: the stored snapshot, None before the first fetch
    cache_dirty,  \* per handle: the stored snapshot is no longer trusted
    lastKind,     \* per handle: what the latest operation on it was
    nfetch,       \* per handle: backend fetches since the latest command issuance
    nfetchok,     \* per handle: those of them that returned a snapshot
    last,         \* the latest operation, as its caller observed it (of
                  \* getCleaningSessions, whose outcome is hresult, the name only)
    hpc,          \* getCleaningSessions: "idle", "waiting" for a page, or "cut"
    hreqs,        \* the page requests of the current (else the latest) call
    hresps,       \* the responses to them
    hframes,      \* the items list of each frame of the recursion, outermost first
    hresult,      \* what the latest completed call gave its caller
    client,       \* the CloudClient: its fields, and the password it was made with
    robotid,      \* per handle: the id it was made for (CloudRobot.id)
    maps          \* the CloudMap objects of the latest getMaps() that returned

cachevars == <<robot, pending, cache_data, cache_dirty, lastKind, nfetch, nfetchok, last>>
histvars == <<hpc, hreqs, hresps, hframes, hresult>>
clientvars == <<client, robotid, maps>>
vars == <<robot, pending, cache_data, cache_dirty, lastKind, nfetch, nfetchok, last,
          hpc, hreqs, hresps, hframes, hresult, client, robotid, maps>>

\* ------------------------------------------------------------ CloudClient

apiurl == "https://mobile.rvccloud.electrolux.com/api/v1"

Salt == "947X6kdLJyrhlCDzUyzFwT4s4NZL3O8eLs0PE4Hi7hU="

\* CloudClient.chksum(pw): the base64 text of the SHA-256 digest of the
\* UTF-16LE bytes of pw followed by the salt.  The digest is kept as a term
\* over its input: it is a text that is no JStr, whatever pw is.
chksum(pw) == [t |-> "str", base64 |-> [sha256 |-> [utf16le |-> <<pw.v, Salt>>]]]

\* CloudClient.__init__ with HTTPBasicAuth made of the password as given.
CloudClient_plainAuth(email, password) ==
    [apiurl |-> apiurl,
     credentials |-> [AccountPassword |-> chksum(password), Email |-> email],
     httpauth |-> [username |-> email, password |-> password],
     given |-> password]

\* CloudClient.__init__(email, password).  given is the constructor's
\* argument, which the object does not keep.
CloudClient(email, password) ==
    [apiurl |-> apiurl,
     credentials |-> [AccountPassword |-> chksum(password), Email |-> email],
     httpauth |-> [username |-> email, password |-> chksum(password)],
     given |-> password]

\* ------------------------------------------------------------ CachedData

\* CachedData._getinfo: the stored snapshot if present and not dirty, otherwise
\* the result of _getinfo_inner, stored with the dirty flag cleared.  A fetch
\* that raises leaves the cache as it was.  fetch is what _getinfo_inner would
\* return if called.
_getinfo(data, dirty, fetch) ==
    IF data # None /\ ~dirty
    THEN [data |-> data, dirty |-> dirty, ret |-> data, raised |-> "none", fetches |-> 0]
    ELSE IF fetch.ok
    THEN [data |-> fetch.json, dirty |-> FALSE, ret |-> fetch.json, raised |-> "none",
          fetches |-> 1]
    ELSE [data |-> data, dirty |-> dirty, ret |-> None, raised |-> "TransportError",
          fetches |-> 1]

\* CachedData._mark_changed: the dirty flag is set, nothing is fetched.
_mark_changed(dirty) == TRUE

\* ------------------------------------------------------------ CloudRobot reads

\* _getinfo_inner: one POST to /robots/AppUpdate; r.json() on success, the
\* transport's exception otherwise.
_getinfo_inner(httpOk, backend) ==
    IF httpOk THEN [ok |-> TRUE, json |-> backend] ELSE [ok |-> FALSE, json |-> None]

\* i[k] if k in i else None
Lookup(i, k) == IF k \in DOMAIN i THEN i[k] ELSE None

\* RobotStates[code], BatteryStatus[code]: the lookup tables of common.py.
RobotStates(code) ==
    CASE code = 1 -> "Cleaning"
      [] code = 10 -> "Sleeping"
      [] OTHER -> "KeyError"

BatteryStatus(code) ==
    CASE code = 6 -> "High"
      [] OTHER -> "KeyError"

\* getpowermode with the two values of the EcoMode field exchanged.
getpowermode_ecoInverted(i) ==
    LET powermode == Lookup(i, "PowerMode")
        isecomode == Lookup(i, "EcoMode")
    IN  IF powermode # None
        THEN PowerModeOf(powermode.v)
        ELSE IF isecomode # None
        THEN (IF isecomode.v THEN "HIGH" ELSE "MEDIUM")
        ELSE "MEDIUM"

\* getpowermode with the EcoMode field consulted before the PowerMode field.
getpowermode_ecoFirst(i) ==
    LET powermode == Lookup(i, "PowerMode")
        isecomode == Lookup(i, "EcoMode")
    IN  IF isecomode # None
        THEN (IF isecomode.v THEN "MEDIUM" ELSE "HIGH")
        ELSE IF powermode # None
        THEN PowerModeOf(powermode.v)
        ELSE "MEDIUM"

getpowermode(i) ==
    LET powermode == Lookup(i, "PowerMode")
        isecomode == Lookup(i, "EcoMode")
    IN  IF powermode # None
        THEN PowerModeOf(powermode.v)
        ELSE IF isecomode # None
        THEN (IF isecomode.v THEN "MEDIUM" ELSE "HIGH")
        ELSE "MEDIUM"

ReadOps == {"getstatus", "getname", "getfirmware", "getbattery", "isconnected",
            "getlocalpw", "getpowermode"}

\* What a read method makes of the snapshot i that _getinfo returned: the
\* value it returns, or the exception of a failed enum lookup.
ReadValue(op, i) ==
    CASE op = "getstatus" -> [t |-> "enum", v |-> RobotStates(i["RobotStatus"].v)]
      [] op = "getname" -> i["RobotName"]
      [] op = "getfirmware" -> i["FirmwareVersion"]
      [] op = "getbattery" -> [t |-> "enum", v |-> BatteryStatus(i["BatteryStatus"].v)]
      [] op = "isconnected" -> i["Connected"]
      [] op = "getlocalpw" -> i["LocalRobotPassword"]
      [] op = "getpowermode" -> [t |-> "enum", v |-> getpowermode(i)]

\* A read method whose cache hit uses the snapshot up: the cache is left
\* dirty, as if the snapshot expired once served.
ReadInfo_expiring(data, dirty, fetch) ==
    IF data # None /\ ~dirty
    THEN [data |-> data, dirty |-> TRUE, ret |-> data, raised |-> "none", fetches |-> 0]
    ELSE _getinfo(data, dirty, fetch)

\* A read method that calls _getinfo_inner itself and leaves the cache aside.
ReadInfo_uncached(data, dirty, fetch) ==
    IF fetch.ok
    THEN [data |-> data, dirty |-> dirty, ret |-> fetch.json, raised |-> "none", fetches |-> 1]
    ELSE [data |-> data, dirty |-> dirty, ret |-> None, raised |-> "TransportError",
          fetches |-> 1]

\* How a read method obtains its snapshot: through the cache.
ReadInfo(data, dirty, fetch) == _getinfo(data, dirty, fetch)

\* ------------------------------------------------------------ CloudRobot commands

\* The request frame of one command.
Frame(body) == [Type |-> 1, Command |-> "AppUpdate", Body |-> body]

\* What the websocket does during one _sendCommand.
NetOutcomes == {"connect_fails", "send_fails", "recv_fails", "ok"}

\* _sendCommand with _mark_changed after ws.recv() instead of in the finally
\* block: a command that fails leaves the cache trusted.
_sendCommand_markOnSuccess(body, net) ==
    CASE net = "connect_fails" ->
           [wslog |-> <<"connect!", "close">>, frames |-> <<>>,
            raised |-> "TransportError", marked |-> FALSE]
      [] net = "send_fails" ->
           [wslog |-> <<"connect", "send!", "close">>, frames |-> <<>>,
            raised |-> "TransportError", marked |-> FALSE]
      [] net = "recv_fails" ->
           [wslog |-> <<"connect", "send", "recv!", "close">>, frames |-> <<Frame(body)>>,
            raised |-> "TransportError", marked |-> FALSE]
      [] net = "ok" ->
           [wslog |-> <<"connect", "send", "recv", "close">>, frames |-> <<Frame(body)>>,
            raised |-> "none", marked |-> TRUE]

\* _sendCommand with _mark_changed inside the try block after ws.connect(): a
\* command whose connection fails leaves the cache trusted.
_sendCommand_markAfterConnect(body, net) ==
    CASE net = "connect_fails" ->
           [wslog |-> <<"connect!", "close">>, frames |-> <<>>,
            raised |-> "TransportError", marked |-> FALSE]
      [] net = "send_fails" ->
           [wslog |-> <<"connect", "send!", "close">>, frames |-> <<>>,
            raised |-> "TransportError", marked |-> TRUE]
      [] net = "recv_fails" ->
           [wslog |-> <<"connect", "send", "recv!", "close">>, frames |-> <<Frame(body)>>,
            raised |-> "TransportError", marked |-> TRUE]
      [] net = "ok" ->
           [wslog |-> <<"connect", "send", "recv", "close">>, frames |-> <<Frame(body)>>,
            raised |-> "none", marked |-> TRUE]

\* _sendCommand with _mark_changed in a handler of the failures of connect and
\* send and after ws.recv(): a command whose answer is not received leaves
\* the cache trusted although its frame went out.
_sendCommand_markUnlessRecvFails(body, net) ==
    CASE net = "connect_fails" ->
           [wslog |-> <<"connect!", "close">>, frames |-> <<>>,
            raised |-> "TransportError", marked |-> TRUE]
      [] net = "send_fails" ->
           [wslog |-> <<"connect", "send!", "close">>, frames |-> <<>>,
            raised |-> "TransportError", marked |-> TRUE]
      [] net = "recv_fails" ->
           [wslog |-> <<"connect", "send", "recv!", "close">>, frames |-> <<Frame(body)>>,
            raised |-> "TransportError", marked |-> FALSE]
      [] net = "ok" ->
           [wslog |-> <<"connect", "send", "recv", "close">>, frames |-> <<Frame(body)>>,
            raised |-> "none", marked |-> TRUE]

\* _sendCommand with ws.close() after ws.recv() instead of in the finally
\* block: a command that fails leaves its socket as it is.
_sendCommand_closeOnSuccess(body, net) ==
    CASE net = "connect_fails" ->
           [wslog |-> <<"connect!">>, frames |-> <<>>,
            raised |-> "TransportError", marked |-> TRUE]
      [] net = "send_fails" ->
           [wslog |-> <<"connect", "send!">>, frames |-> <<>>,
            raised |-> "TransportError", marked |-> TRUE]
      [] net = "recv_fails" ->
           [wslog |-> <<"connect", "send", "recv!">>, frames |-> <<Frame(body)>>,
            raised |-> "TransportError", marked |-> TRUE]
      [] net = "ok" ->
           [wslog |-> <<"connect", "send", "recv", "close">>, frames |-> <<Frame(body)>>,
            raised |-> "none", marked |-> TRUE]

\* _sendCommand(body): connect, send one frame, receive one frame; whatever
\* happens, the cache is marked changed and the socket closed (finally).
\*   wslog   the calls made on the socket, a failed one marked "!"
\*   frames  the frames that went out
\*   marked  _mark_changed was called
_sendCommand(body, net) ==
    CASE net = "connect_fails" ->
           [wslog |-> <<"connect!", "close">>, frames |-> <<>>,
            raised |-> "TransportError", marked |-> TRUE]
      [] net = "send_fails" ->
           [wslog |-> <<"connect", "send!", "close">>, frames |-> <<>>,
            raised |-> "TransportError", marked |-> TRUE]
      [] net = "recv_fails" ->
           [wslog |-> <<"connect", "send", "recv!", "close">>, frames |-> <<Frame(body)>>,
            raised |-> "TransportError", marked |-> TRUE]
      [] net = "ok" ->
           [wslog |-> <<"connect", "send", "recv", "close">>, frames |-> <<Frame(body)>>,
            raised |-> "none", marked |-> TRUE]

_sendCleanCommand(command) == [CleaningCommand |-> command]

CleanOps == {"startclean", "gohome", "pauseclean", "stopclean"}

\* The codes of gohome and pauseclean exchanged.
CleanCode_homeIsPause(op) ==
    CASE op = "startclean" -> 1
      [] op = "gohome" -> 4
      [] op = "pauseclean" -> 3
      [] op = "stopclean" -> 5

\* The CleaningCommand code of each cleaning method.
CleanCode(op) ==
    CASE op = "startclean" -> 1
      [] op = "gohome" -> 3
      [] op = "pauseclean" -> 4
      [] op = "stopclean" -> 5

\* setpowermode that takes a robot without either field for an EcoMode robot
\* in its default, as getpowermode does: MEDIUM and HIGH are sent as EcoMode.
setpowermode_ecoByDefault(i, mode) ==
    LET powermode == Lookup(i, "PowerMode")
        isecomode == Lookup(i, "EcoMode")
    IN  IF powermode # None
        THEN [send |-> TRUE, body |-> [PowerMode |-> PowerModeValue(mode)]]
        ELSE IF mode = "MEDIUM"
        THEN [send |-> TRUE, body |-> [EcoMode |-> TRUE]]
        ELSE IF mode = "HIGH"
        THEN [send |-> TRUE, body |-> [EcoMode |-> FALSE]]
        ELSE [send |-> FALSE, body |-> None]

\* setpowermode that sends EcoMode: True for every mode but HIGH.
setpowermode_lowAsEco(i, mode) ==
    LET powermode == Lookup(i, "PowerMode")
        isecomode == Lookup(i, "EcoMode")
    IN  IF powermode # None
        THEN [send |-> TRUE, body |-> [PowerMode |-> PowerModeValue(mode)]]
        ELSE IF isecomode # None
        THEN (IF mode = "HIGH"
              THEN [send |-> TRUE, body |-> [EcoMode |-> FALSE]]
              ELSE [send |-> TRUE, body |-> [EcoMode |-> TRUE]])
        ELSE [send |-> FALSE, body |-> None]

\* setpowermode with the two EcoMode values exchanged.
setpowermode_swapEco(i, mode) ==
    LET powermode == Lookup(i, "PowerMode")
        isecomode == Lookup(i, "EcoMode")
    IN  IF powermode # None
        THEN [send |-> TRUE, body |-> [PowerMode |-> PowerModeValue(mode)]]
        ELSE IF isecomode # None
        THEN (IF mode = "MEDIUM"
              THEN [send |-> TRUE, body |-> [EcoMode |-> FALSE]]
              ELSE IF mode = "HIGH"
              THEN [send |-> TRUE, body |-> [EcoMode |-> TRUE]]
              ELSE [send |-> FALSE, body |-> None])
        ELSE [send |-> FALSE, body |-> None]

\* setpowermode(mode) once it holds the snapshot i: the body it passes to
\* _sendCommand, or the exception it raises without sending.
setpowermode(i, mode) ==
    LET powermode == Lookup(i, "PowerMode")
        isecomode == Lookup(i, "EcoMode")
    IN  IF powermode # None
        THEN [send |-> TRUE, body |-> [PowerMode |-> PowerModeValue(mode)]]
        ELSE IF isecomode # None
        THEN (IF mode = "MEDIUM"
              THEN [send |-> TRUE, body |-> [EcoMode |-> TRUE]]
              ELSE IF mode = "HIGH"
              THEN [send |-> TRUE, body |-> [EcoMode |-> FALSE]]
              ELSE [send |-> FALSE, body |-> None])
        ELSE [send |-> FALSE, body |-> None]

\* ------------------------------------------------------------ backend

\* The status the robot reports once it obeys a cleaning command.
StatusAfter(command) == IF command = 1 THEN 1 ELSE 10

\* The robot state after the backend has applied a command body to it.
ApplyBody(r, body) ==
    [k \in DOMAIN r \cup (DOMAIN body \ {"CleaningCommand"}) |->
        CASE k = "PowerMode" /\ "PowerMode" \in DOMAIN body -> JInt(body.PowerMode)
          [] k = "EcoMode" /\ "EcoMode" \in DOMAIN body -> JBool(body.EcoMode)
          [] k = "RobotStatus" /\ "CleaningCommand" \in DOMAIN body ->
               JInt(StatusAfter(body.CleaningCommand))
          [] OTHER -> r[k]]

\* Another client of the backend, or the robot itself, changes the robot's
\* state; which of the two power fields the robot carries does not change.
SameRepresentation(r1, r2) ==
    /\ DOMAIN r1 = DOMAIN r2
    /\ (Lookup(r1, "PowerMode") = None) = (Lookup(r2, "PowerMode") = None)
    /\ (Lookup(r1, "EcoMode") = None) = (Lookup(r2, "EcoMode") = None)

\* ------------------------------------------------------------ outgoing messages

\* The request of _getinfo_inner.
AppUpdateRequest(h) ==
    [method |-> "POST", url |-> <<client.apiurl, "/robots/AppUpdate">>,
     auth |-> client.httpauth,
     json |-> [RobotID |-> robotid[h], Email |-> client.credentials.Email,
               AccountPassword |-> client.credentials.AccountPassword]]

wsurl == "wss://mobile.rvccloud.electrolux.com/api/v1/websocket/AppUser"

\* ws.connect(url, header=headers) of _sendCommand: the header is a copy of
\* the credentials with the handle's robot id put in.
SocketConnect(h) ==
    [method |-> "CONNECT", url |-> <<wsurl>>,
     header |-> [AccountPassword |-> client.credentials.AccountPassword,
                 Email |-> client.credentials.Email,
                 RobotId |-> robotid[h]]]

\* The backend's way with the commands it receives.  A backend that is Sync
\* has applied a command, if it applies it at all, when it answers it.  One
\* that is not may hold a command back and apply it later: Held(body) until
\* then, Landed once it has done so.
Sync == [t |-> "sync"]
Held(body) == [t |-> "body", v |-> body]
Landed == [t |-> "landed"]

\* What becomes of the frames s.frames of a command at the backend: it
\* ignores them, applies the body at once, or holds the body back.
BackendReceives(body, s) ==
    \/ UNCHANGED <<robot, pending>>
    \/ /\ s.frames # <<>>
       /\ robot' = ApplyBody(robot, body)
       /\ UNCHANGED pending
    \/ /\ s.frames # <<>>
       /\ pending = None
       /\ pending' = Held(body)
       /\ UNCHANGED robot

\* ------------------------------------------------------------ operations

Min(a, b) == IF a < b THEN a ELSE b

NoSend == [wslog |-> <<>>, frames |-> <<>>, raised |-> "none", marked |-> FALSE]

NoRead == [data |-> None, dirty |-> FALSE, ret |-> None, raised |-> "none", fetches |-> 0]

\* The record of a completed operation on handle h.
\*   reads    its calls of _getinfo (0 or 1);  fetches  its backend fetches;
\*            fetchok  those of them that returned a snapshot
\*   cmds     the bodies it passed to _sendCommand
\*   sent     the requests it made and the connections it asked for, in order
\*   got      the JSON a maps request of it was answered with (None if none)
\* and, of an operation that reads (of the others, the values of NoOp):
\*   after    what the operation before it on h was (lastKind)
\*   modeset  the mode that operation asked for, if it was a setpowermode
\*            that returned ("" if not)
\*   kept     the cache is, after the operation's read, as it was before it
\*   used     the snapshot _getinfo gave it (None if none)
\*   window, windowok   the fetches (successful ones) between the latest
\*            command issuance on h and the end of this operation's read
Completed(h, op, arg, reads, g, cmds, s, raised, ret) ==
    [h |-> h, op |-> op, arg |-> arg, reads |-> reads,
     after |-> IF reads = 0 THEN "new" ELSE lastKind[h],
     modeset |-> IF reads = 1 /\ last.h = h /\ last.op = "setpowermode" /\ last.raised = "none"
                 THEN last.arg ELSE "",
     kept |-> (reads = 0 \/ (g.data = cache_data[h] /\ g.dirty = cache_dirty[h])),
     fetches |-> g.fetches,
     fetchok |-> IF g.fetches = 1 /\ g.raised = "none" THEN 1 ELSE 0,
     used |-> g.ret,
     window |-> IF reads = 0 THEN 0 ELSE Min(nfetch[h] + g.fetches, MaxFetch),
     windowok |-> IF reads = 0 THEN 0
                  ELSE Min(nfetchok[h] + (IF g.fetches = 1 /\ g.raised = "none" THEN 1 ELSE 0), 2),
     cmds |-> cmds, frames |-> s.frames, wslog |-> s.wslog, marked |-> s.marked,
     sent |-> (IF g.fetches = 1 THEN <<AppUpdateRequest(h)>> ELSE <<>>)
              \o (IF s.wslog # <<>> THEN <<SocketConnect(h)>> ELSE <<>>),
     got |-> None,
     raised |-> raised, ret |-> ret]

\* The record before any operation has completed.
NoOp ==
    [h |-> "none", op |-> "init", arg |-> "", reads |-> 0, after |-> "new",
     modeset |-> "",
     kept |-> TRUE,
     fetches |-> 0, fetchok |-> 0, used |-> None, window |-> 0, windowok |-> 0,
     cmds |-> <<>>, frames |-> <<>>, wslog |-> <<>>, marked |-> FALSE,
     sent |-> <<>>, got |-> None,
     raised |-> "none", ret |-> None]

\* The answers the backend may give to the fetch of an operation on h: none is
\* drawn when the cache answers, and a failing one only while the window's
\* counter has room.
HttpAnswers(h) ==
    IF cache_data[h] # None /\ ~cache_dirty[h] THEN {TRUE}
    ELSE IF nfetch[h] < MaxFetch - 1 THEN BOOLEAN ELSE {TRUE}

\* getstatus, getname, getfirmware, getbattery, isconnected, getlocalpw,
\* getpowermode.
Read(h, op) ==
    \E httpOk \in HttpAnswers(h) :
        LET g == ReadInfo(cache_data[h], cache_dirty[h], _getinfo_inner(httpOk, robot))
            value == ReadValue(op, g.ret)
            lookupFails == value.t = "enum" /\ value.v \in {"ValueError", "KeyError"}
        IN  /\ cache_data' = [cache_data EXCEPT ![h] = g.data]
            /\ cache_dirty' = [cache_dirty EXCEPT ![h] = g.dirty]
            /\ lastKind' = [lastKind EXCEPT ![h] = "read"]
            /\ last' = IF g.raised # "none"
                       THEN Completed(h, op, "", 1, g, <<>>, NoSend, g.raised, None)
                       ELSE IF lookupFails
                       THEN Completed(h, op, "", 1, g, <<>>, NoSend, value.v, None)
                       ELSE Completed(h, op, "", 1, g, <<>>, NoSend, "none", value)
            /\ nfetch' = [nfetch EXCEPT ![h] = last'.window]
            /\ nfetchok' = [nfetchok EXCEPT ![h] = last'.windowok]
            /\ UNCHANGED <<robot, pending, histvars, clientvars>>

\* A command that marks the cache of every handle changed, as if the dirty
\* flag were shared by all CloudRobot objects.
Issued_sharedFlag(h, dirty, body, s) ==
    /\ cache_dirty' = [g \in DOMAIN cache_dirty |->
                          IF s.marked THEN _mark_changed(dirty)
                          ELSE IF g = h THEN dirty ELSE cache_dirty[g]]
    /\ lastKind' = [lastKind EXCEPT ![h] = "issued"]
    /\ nfetch' = [nfetch EXCEPT ![h] = 0]
    /\ nfetchok' = [nfetchok EXCEPT ![h] = 0]
    /\ BackendReceives(body, s)

\* What a command leaves behind once _sendCommand(body) has run with outcome s
\* on a handle whose dirty flag was dirty: the flag is set, and the backend may
\* have applied a frame that went out.
Issued(h, dirty, body, s) ==
    /\ cache_dirty' = [cache_dirty EXCEPT
                          ![h] = IF s.marked THEN _mark_changed(dirty) ELSE dirty]
    /\ lastKind' = [lastKind EXCEPT ![h] = "issued"]
    /\ nfetch' = [nfetch EXCEPT ![h] = 0]
    /\ nfetchok' = [nfetchok EXCEPT ![h] = 0]
    /\ BackendReceives(body, s)

\* startclean, gohome, pauseclean, stopclean.
CleanCommand(h, op) ==
    \E net \in NetOutcomes :
        LET body == _sendCleanCommand(CleanCode(op))
            s == _sendCommand(body, net)
        IN  /\ Issued(h, cache_dirty[h], body, s)
            /\ last' = Completed(h, op, "", 0, NoRead, <<body>>, s, s.raised,
                                 IF s.raised = "none" THEN JBool(TRUE) ELSE None)
            /\ UNCHANGED <<cache_data, histvars, clientvars>>

\* setpowermode(mode): the snapshot is read through the cache, then the
\* command is sent or refused.
SetPowerMode(h, mode) ==
    \E httpOk \in HttpAnswers(h) :
        LET g == _getinfo(cache_data[h], cache_dirty[h], _getinfo_inner(httpOk, robot))
            d == setpowermode(g.ret, mode)
        IN  /\ cache_data' = [cache_data EXCEPT ![h] = g.data]
            /\ UNCHANGED <<histvars, clientvars>>
            /\ IF g.raised # "none" \/ ~d.send
               THEN /\ last' = Completed(h, "setpowermode", mode, 1, g, <<>>, NoSend,
                                         IF g.raised # "none" THEN g.raised
                                         ELSE "Unsupported", None)
                    /\ cache_dirty' = [cache_dirty EXCEPT ![h] = g.dirty]
                    /\ lastKind' = [lastKind EXCEPT
                                       ![h] = IF g.raised # "none" THEN "failed"
                                              ELSE "refused"]
                    /\ nfetch' = [nfetch EXCEPT ![h] = last'.window]
                    /\ nfetchok' = [nfetchok EXCEPT ![h] = last'.windowok]
                    /\ UNCHANGED <<robot, pending>>
               ELSE \E net \in NetOutcomes :
                        LET s == _sendCommand(d.body, net)
                        IN  /\ last' = Completed(h, "setpowermode", mode, 1, g,
                                                 <<d.body>>, s, s.raised, None)
                            /\ Issued(h, g.dirty, d.body, s)

\* The backend applies the command it held back.
TakesEffect ==
    /\ pending.t = "body"
    /\ robot' = ApplyBody(robot, pending.v)
    /\ pending' = Landed
    /\ UNCHANGED <<cache_data, cache_dirty, lastKind, nfetch, nfetchok, last, histvars,
                   clientvars>>

\* The robot's state changes at the backend without this program's doing.
BackendChanges ==
    /\ \E r \in RobotJsons : SameRepresentation(robot, r) /\ r # robot /\ robot' = r
    /\ UNCHANGED <<pending, cache_data, cache_dirty, lastKind, nfetch, nfetchok, last, histvars,
                   clientvars>>

\* ------------------------------------------------------------ cleaning history

\* The id a handle was made for (CloudRobot.id).
RobotIdOf(h) == robotid[h]

\* "Limit" of a page request.
Limit == 50

\* The opaque cursors of the backend.
Cursors == {"A", "B"}
NextValues == {None} \cup {JStr(c) : c \in Cursors}

\* The JSON body of one POST to /robots/CleanedAreas.
PageRequest(h, nextptr) ==
    [Next |-> nextptr, Previous |-> None, Limit |-> Limit, RobotID |-> RobotIdOf(h),
     Email |-> client.credentials.Email,
     AccountPassword |-> client.credentials.AccountPassword]

\* The items of a backend page: the n-th item served during a call has
\* TimeStamp n; its CleaningSession is null, or carries a map image or none.
ItemKinds == {"nosession", "image", "noimage"}

BackendItem(ts, kind) ==
    [TimeStamp |-> ts, CleanedArea |-> 10 * ts,
     CleaningSession |->
        IF kind = "nosession" THEN None
        ELSE [MapImageUrl |-> IF kind = "image" THEN JStr("img") ELSE None,
              PersistentMapId |-> JStr("map"), Completion |-> 1,
              RobotUserError |-> 0, RobotInternalError |-> 0]]

ImagePrefix == "https://mobile.rvccloud.electrolux.com/image/map/png/"

\* The lambda of getCleaningSessions: the session entry made of a backend item.
SessionEntry(x) ==
    [timestamp |-> x.TimeStamp,
     cleaned_area |-> x.CleanedArea,
     image |-> IF x.CleaningSession.MapImageUrl # None
               THEN [t |-> "str", v |-> <<ImagePrefix, x.CleaningSession.MapImageUrl.v>>]
               ELSE None,
     map |-> x.CleaningSession.PersistentMapId,
     status |-> x.CleaningSession.Completion,
     usererror |-> x.CleaningSession.RobotUserError,
     internalerror |-> x.CleaningSession.RobotInternalError]

\* filter(lambda x: x["CleaningSession"] != None, ...)
HasSession(x) == x.CleaningSession # None

\* items = list(map(..., filter(..., js["Items"])))
PageItems(Items) ==
    LET F[n \in 0..Len(Items)] ==
            IF n = 0 THEN <<>>
            ELSE IF HasSession(Items[n]) THEN Append(F[n - 1], SessionEntry(Items[n]))
            ELSE F[n - 1]
    IN  F[Len(Items)]

\* getCleaningSessions with do_http in a try whose handler returns []: a
\* failed page ends the listing like a 204 does.
getCleaningSessions_swallowFailure(r, nextptr) ==
    IF r.status = 0 \/ r.status = 204
    THEN [outcome |-> "return", items |-> <<>>, nextptr |-> None]
    ELSE IF r.Next # None
    THEN [outcome |-> "recurse", items |-> PageItems(r.Items), nextptr |-> r.Next]
    ELSE [outcome |-> "return", items |-> PageItems(r.Items), nextptr |-> None]

\* getCleaningSessions that hands its own cursor, not the page's, to the call
\* for the next page.
getCleaningSessions_ownCursor(r, nextptr) ==
    IF r.status = 0
    THEN [outcome |-> "raise", items |-> <<>>, nextptr |-> None]
    ELSE IF r.status = 204
    THEN [outcome |-> "return", items |-> <<>>, nextptr |-> None]
    ELSE IF r.Next # None
    THEN [outcome |-> "recurse", items |-> PageItems(r.Items), nextptr |-> nextptr]
    ELSE [outcome |-> "return", items |-> PageItems(r.Items), nextptr |-> None]

\* getCleaningSessions without the status_code == 204 test: r.json() raises on
\* the empty body.
getCleaningSessions_no204(r, nextptr) ==
    IF r.status = 0 \/ r.status = 204
    THEN [outcome |-> "raise", items |-> <<>>, nextptr |-> None]
    ELSE IF r.Next # None
    THEN [outcome |-> "recurse", items |-> PageItems(r.Items), nextptr |-> r.Next]
    ELSE [outcome |-> "return", items |-> PageItems(r.Items), nextptr |-> None]

\* One frame of getCleaningSessions(nextptr) once its request is answered by
\* r: the exception of do_http leaves it, or it returns its items, or it
\* calls itself with the cursor of the page.
getCleaningSessions(r, nextptr) ==
    IF r.status = 0
    THEN [outcome |-> "raise", items |-> <<>>, nextptr |-> None]
    ELSE IF r.status = 204
    THEN [outcome |-> "return", items |-> <<>>, nextptr |-> None]
    ELSE IF r.Next # None
    THEN [outcome |-> "recurse", items |-> PageItems(r.Items), nextptr |-> r.Next]
    ELSE [outcome |-> "return", items |-> PageItems(r.Items), nextptr |-> None]

\* The recursion with each frame's items put behind what the frame below
\* returned.
Unwind_prepend(frames) ==
    LET F[n \in 0..Len(frames)] ==
            IF n = 0 THEN <<>> ELSE frames[n] \o F[n - 1]
    IN  F[Len(frames)]

\* What the frames of the recursion return to the caller: each frame's items
\* followed by what the frame below it returned (items += ...).
Unwind(frames) ==
    LET F[n \in 0..Len(frames)] ==
            IF n = 0 THEN <<>> ELSE F[n - 1] \o frames[n]
    IN  F[Len(frames)]

\* Items served so far during the call.
Served == LET F[n \in 0..Len(hresps)] ==
                  IF n = 0 THEN 0
                  ELSE F[n - 1] + (IF hresps[n].status = 200 THEN Len(hresps[n].Items) ELSE 0)
          IN  F[Len(hresps)]

\* The answers the backend may give to a page request: a transport failure,
\* 204 no content, or a page of items with a Next cursor or null.
PageAnswers ==
    {[status |-> 0], [status |-> 204]} \cup
    {[status |-> 200, Items |-> [i \in 1..n |-> BackendItem(Served + i, kinds[i])],
      Next |-> nx] :
        nx \in NextValues,
        n \in 0..(MaxItems - Served),
        kinds \in [1..MaxItems -> ItemKinds]}

\* getCleaningSessions() is called: the first page is requested with no cursor.
GetCleaningSessions(h) ==
    /\ hpc = "idle"
    /\ hpc' = "waiting"
    /\ hreqs' = <<PageRequest(h, None)>>
    /\ hresps' = <<>>
    /\ hframes' = <<>>
    /\ hresult' = [status |-> "none", items |-> <<>>]
    /\ last' = [NoOp EXCEPT !.h = h, !.op = "getCleaningSessions"]
    /\ UNCHANGED <<robot, pending, cache_data, cache_dirty, lastKind, nfetch, nfetchok, clientvars>>

\* The response to the outstanding page request arrives and the innermost
\* frame runs on: it raises, returns, or requests the next page.
PageResponseFrom(h, answers) ==
    /\ hpc = "waiting"
    /\ hreqs[1].RobotID = RobotIdOf(h)
    /\ \E r \in answers :
        LET f == getCleaningSessions(r, hreqs[Len(hreqs)].Next)
        IN  /\ hresps' = Append(hresps, r)
            /\ IF f.outcome = "raise"
               THEN \* the exception leaves every frame
                    /\ hpc' = "idle"
                    /\ hframes' = <<>>
                    /\ hresult' = [status |-> "raised", items |-> <<>>]
                    /\ UNCHANGED hreqs
               ELSE IF f.outcome = "return"
               THEN \* every frame returns in turn
                    /\ hpc' = "idle"
                    /\ hframes' = <<>>
                    /\ hresult' = [status |-> "returned",
                                   items |-> Unwind(Append(hframes, f.items))]
                    /\ UNCHANGED hreqs
               ELSE \* items += self.getCleaningSessions(nextptr=js["Next"])
                    /\ hframes' = Append(hframes, f.items)
                    /\ UNCHANGED hresult
                    /\ IF Len(hreqs) < MaxRequests
                       THEN /\ hpc' = "waiting"
                            /\ hreqs' = Append(hreqs, PageRequest(h, f.nextptr))
                       ELSE /\ hpc' = "cut"
                            /\ UNCHANGED hreqs
    /\ UNCHANGED <<cachevars, clientvars>>

PageResponse(h) == PageResponseFrom(h, PageAnswers)

\* ------------------------------------------------------------ maps

\* The zone lists a map of the listing may carry (the names of the zones).
ZoneLists == {<<>>, <<"hall", "kitchen">>}

ZoneJson(name) ==
    [Id |-> <<"zone", name>>, Name |-> JStr(name), ZoneType |-> JStr("clean"),
     RoomCategory |-> 0]

MapJson(id, zones) ==
    [Id |-> <<"map", id>>, InteractiveId |-> <<"interactive", id>>,
     Name |-> JStr("floor"),
     Zones |-> [z \in 1..Len(zones) |-> ZoneJson(zones[z])]]

\* The answers to the listing request: a transport failure, or a JSON list
\* of n maps, their ids ascending or descending.
MapsAnswers ==
    {[status |-> 0]} \cup
    {[status |-> 200,
      json |-> [k \in 1..n |-> MapJson(IF up THEN k ELSE n + 1 - k, zl[k])]] :
        n \in 0..MaxMaps, up \in BOOLEAN, zl \in [1..MaxMaps -> ZoneLists]}

\* The answers to an image request: a transport failure, or a JSON value.
ImageAnswers ==
    {[status |-> 0], [status |-> 200, json |-> None],
     [status |-> 200, json |-> [Id |-> JStr("img"), PngImage |-> JStr("iVBOR")]]}

\* CloudZone.__init__(cloudmap, js); cloudmap is the object that owns it.
CloudZone(cloudmap, js) ==
    [map |-> cloudmap, id |-> js.Id, name |-> js.Name, type |-> js.ZoneType,
     roomcategory |-> js.RoomCategory]

\* CloudMap.__init__(cloudrobot, js) of the object self, which getMaps makes
\* for entry self of the listing.
CloudMap(self, cloudrobot, js) ==
    [robot |-> cloudrobot, id |-> js.Id, interactiveid |-> js.InteractiveId,
     name |-> js.Name,
     zones |-> [z \in 1..Len(js.Zones) |-> CloudZone(self, js.Zones[z])],
     info |-> None, image |-> None]

\* The request of getMaps.
MapsRequest(h) ==
    [method |-> "GET",
     url |-> <<client.apiurl, "/robots/", robotid[h], "/interactivemaps">>,
     auth |-> client.httpauth]

\* getMaps once its request is answered by r.
getMaps(h, r) ==
    IF r.status = 0
    THEN [raised |-> "TransportError", ret |-> <<>>]
    ELSE [raised |-> "none",
          ret |-> [k \in 1..Len(r.json) |-> CloudMap(k, h, r.json[k])]]

\* The request of CloudMap.getImage on map object m.
ImageRequest(m) ==
    [method |-> "GET",
     url |-> <<client.apiurl, "/robots/", robotid[m.robot], "/interactivemaps/", m.id>>,
     auth |-> client.httpauth]

\* getImage that takes PngImage out of the payload before returning it.
getImage_stripPng(m, r) ==
    IF r.status = 0
    THEN [raised |-> "TransportError", ret |-> None]
    ELSE [raised |-> "none",
          ret |-> IF r.json = None THEN None
                  ELSE [k \in DOMAIN r.json \ {"PngImage"} |-> r.json[k]]]

\* CloudMap.getImage once its request is answered by r.
getImage(m, r) ==
    IF r.status = 0
    THEN [raised |-> "TransportError", ret |-> None]
    ELSE [raised |-> "none", ret |-> r.json]

\* getMaps that ends with self._mark_changed().
GetMaps_markingCache(h) ==
    \E r \in MapsAnswers :
        LET f == getMaps(h, r)
        IN  /\ maps' = IF f.raised = "none" THEN f.ret ELSE maps
            /\ last' = [NoOp EXCEPT !.h = h, !.op = "getMaps",
                                    !.sent = <<MapsRequest(h)>>,
                                    !.got = IF r.status = 0 THEN None ELSE r.json,
                                    !.raised = f.raised]
            /\ cache_dirty' = [cache_dirty EXCEPT ![h] = TRUE]
            /\ UNCHANGED <<robot, pending, cache_data, lastKind, nfetch, nfetchok,
                           histvars, client, robotid>>

\* rc.getMaps() on handle h.
GetMaps(h) ==
    \E r \in MapsAnswers :
        LET f == getMaps(h, r)
        IN  /\ maps' = IF f.raised = "none" THEN f.ret ELSE maps
            /\ last' = [NoOp EXCEPT !.h = h, !.op = "getMaps",
                                    !.sent = <<MapsRequest(h)>>,
                                    !.got = IF r.status = 0 THEN None ELSE r.json,
                                    !.raised = f.raised]
            /\ UNCHANGED <<robot, pending, cache_data, cache_dirty, lastKind, nfetch, nfetchok,
                           histvars, client, robotid>>

\* m.getImage() on the k-th map the caller holds.
GetImage(k) ==
    /\ k \in 1..Len(maps)
    /\ \E r \in ImageAnswers :
        LET f == getImage(maps[k], r)
        IN  /\ last' = [NoOp EXCEPT !.h = maps[k].robot, !.op = "getImage",
                                    !.sent = <<ImageRequest(maps[k])>>,
                                    !.got = IF r.status = 0 THEN None ELSE r.json,
                                    !.raised = f.raised, !.ret = f.ret]
            /\ UNCHANGED <<robot, pending, cache_data, cache_dirty, lastKind, nfetch, nfetchok,
                           histvars, clientvars>>

\* ------------------------------------------------------------ specification

\* CloudRobot.__init__ -> CachedData.__init__: nothing stored, not dirty.
Init ==
    /\ robot \in RobotJsons
    /\ pending = Sync
    /\ cache_data = [h \in Handles |-> None]
    /\ cache_dirty = [h \in Handles |-> FALSE]
    /\ lastKind = [h \in Handles |-> "new"]
    /\ nfetch = [h \in Handles |-> 0]
    /\ nfetchok = [h \in Handles |-> 0]
    /\ last = NoOp
    /\ hpc = "idle"
    /\ hreqs = <<>>
    /\ hresps = <<>>
    /\ hframes = <<>>
    /\ hresult = [status |-> "none", items |-> <<>>]
    /\ client = CloudClient(JStr("user@example.org"), JStr("secret1"))
    /\ robotid = [h \in Handles |-> "robot1"]
    /\ maps = <<>>

Next ==
    \/ \E h \in Handles, op \in ReadOps : Read(h, op)
    \/ \E h \in Handles, op \in CleanOps : CleanCommand(h, op)
    \/ \E h \in Handles, mode \in PowerModes : SetPowerMode(h, mode)
    \/ BackendChanges

Spec == Init /\ [][Next]_vars

\* The cleaning history, retrieved through a handle of a robot that carries
\* PowerMode.
InitHistory == Init /\ robot = RobotJson(1, <<JInt(1)>>, <<>>)

NextHistory == \E h \in Handles : GetCleaningSessions(h) \/ PageResponse(h)

SpecHistory == InitHistory /\ [][NextHistory]_vars

\* One handle, and a backend at which the robot's state changes through the
\* commands of that handle only; the backend may hold a command back.
InitSolo ==
    /\ robot \in RobotJsons
    /\ pending = None
    /\ cache_data = [h \in Handles |-> None]
    /\ cache_dirty = [h \in Handles |-> FALSE]
    /\ lastKind = [h \in Handles |-> "new"]
    /\ nfetch = [h \in Handles |-> 0]
    /\ nfetchok = [h \in Handles |-> 0]
    /\ last = NoOp
    /\ hpc = "idle"
    /\ hreqs = <<>>
    /\ hresps = <<>>
    /\ hframes = <<>>
    /\ hresult = [status |-> "none", items |-> <<>>]
    /\ client = CloudClient(JStr("user@example.org"), JStr("secret1"))
    /\ robotid = [h \in Handles |-> "robot1"]
    /\ maps = <<>>

\* The reads and cleaning commands used here: a plain field and the power
\* mode; a command that starts the robot and one that stops it.
SoloReads == {"getstatus", "getpowermode"}
SoloCleans == {"startclean", "gohome"}

NextSolo ==
    \/ \E h \in Handles, op \in SoloReads : Read(h, op)
    \/ \E h \in Handles, op \in SoloCleans : CleanCommand(h, op)
    \/ \E h \in Handles, mode \in PowerModes : SetPowerMode(h, mode)
    \/ TakesEffect

SpecSolo == InitSolo /\ [][NextSolo]_vars

\* Two handles of the same robot, as a caller holds them after two calls of
\* getRobot (or of getRobots): each is a CloudRobot of its own.  The backend's
\* state changes through their commands only.
TwoHandles == {"h1", "h2"}

\* CloudClient.getRobot(id): a new CloudRobot, which the caller keeps as h in
\* place of the one it held; CachedData.__init__ leaves it nothing stored.
GetRobot(h) ==
    /\ lastKind[h] # "new"
    /\ cache_data' = [cache_data EXCEPT ![h] = None]
    /\ cache_dirty' = [cache_dirty EXCEPT ![h] = FALSE]
    /\ lastKind' = [lastKind EXCEPT ![h] = "new"]
    /\ nfetch' = [nfetch EXCEPT ![h] = 0]
    /\ nfetchok' = [nfetchok EXCEPT ![h] = 0]
    /\ last' = [NoOp EXCEPT !.h = h, !.op = "getRobot"]
    /\ UNCHANGED <<robot, pending, histvars, clientvars>>

InitHandles ==
    /\ robot \in {RobotJson(10, <<JInt(2)>>, <<>>), RobotJson(10, <<>>, <<JBool(TRUE)>>)}
    /\ pending = Sync
    /\ cache_data = [h \in TwoHandles |-> None]
    /\ cache_dirty = [h \in TwoHandles |-> FALSE]
    /\ lastKind = [h \in TwoHandles |-> "new"]
    /\ nfetch = [h \in TwoHandles |-> 0]
    /\ nfetchok = [h \in TwoHandles |-> 0]
    /\ last = NoOp
    /\ hpc = "idle"
    /\ hreqs = <<>>
    /\ hresps = <<>>
    /\ hframes = <<>>
    /\ hresult = [status |-> "none", items |-> <<>>]
    /\ client = CloudClient(JStr("user@example.org"), JStr("secret1"))
    /\ robotid = [h \in TwoHandles |-> "robot1"]
    /\ maps = <<>>

\* The operations the caller uses on the two handles: one read of each kind
\* (a plain field, the power mode) and one command of each kind.
HandleReads == {"getstatus", "getpowermode"}
HandleCleans == {"startclean"}
HandleModes == {"HIGH"}

NextHandles ==
    \/ \E h \in TwoHandles : GetRobot(h)
    \/ \E h \in TwoHandles, op \in HandleReads : Read(h, op)
    \/ \E h \in TwoHandles, op \in HandleCleans : CleanCommand(h, op)
    \/ \E h \in TwoHandles, mode \in HandleModes : SetPowerMode(h, mode)

SpecHandles == InitHandles /\ [][NextHandles]_vars

\* A client made for one of two accounts, and a handle of the account's robot,
\* used for every kind of operation.  The program is single-threaded: no
\* operation starts while getCleaningSessions is waiting for a page.  The
\* caller reads and commands first, in any order and number, and then either
\* lists the maps and asks for their images or retrieves the history, as the
\* subcommands of __main__.py do after their getRobots().
Accounts ==
    {[email |-> JStr("user@example.org"), password |-> JStr("secret1"), robot |-> "robot1"],
     [email |-> JStr("other@example.org"), password |-> JStr("secret2"), robot |-> "robot2"]}

\* The request of getRobots.
ConnectRequest ==
    [method |-> "POST", url |-> <<client.apiurl, "/accounts/ConnectToAccount">>,
     auth |-> None, json |-> client.credentials]

\* getRobots once its request is answered by r: the ids of the CloudRobot
\* objects it returns.
getRobots(r) ==
    IF r.status = 0
    THEN [raised |-> "TransportError", ret |-> <<>>]
    ELSE [raised |-> "none",
          ret |-> [k \in 1..Len(r.json.RobotList) |-> r.json.RobotList[k].RobotID]]

\* client.getRobots(): the account lists the robot of h, and the caller keeps
\* the new CloudRobot as h.
GetRobots(h) ==
    \E r \in {[status |-> 0],
              [status |-> 200, json |-> [RobotList |-> <<[RobotID |-> robotid[h]]>>]]} :
        LET f == getRobots(r)
        IN  /\ last' = [NoOp EXCEPT !.h = h, !.op = "getRobots",
                                    !.sent = <<ConnectRequest>>, !.raised = f.raised]
            /\ IF f.raised = "none"
               THEN /\ robotid' = [robotid EXCEPT ![h] = f.ret[1]]
                    /\ cache_data' = [cache_data EXCEPT ![h] = None]
                    /\ cache_dirty' = [cache_dirty EXCEPT ![h] = FALSE]
                    /\ lastKind' = [lastKind EXCEPT ![h] = "new"]
                    /\ nfetch' = [nfetch EXCEPT ![h] = 0]
                    /\ nfetchok' = [nfetchok EXCEPT ![h] = 0]
               ELSE UNCHANGED <<robotid, cache_data, cache_dirty, lastKind, nfetch, nfetchok>>
            /\ UNCHANGED <<robot, pending, histvars, client, maps>>

\* Pages without items: a transport failure, 204, or an empty page with a
\* Next cursor or null.
BarePages ==
    {[status |-> 0], [status |-> 204]} \cup
    {[status |-> 200, Items |-> <<>>, Next |-> nx] : nx \in NextValues}

InitClient ==
    /\ robot = RobotJson(10, <<JInt(2)>>, <<>>)
    /\ pending = Sync
    /\ cache_data = [h \in Handles |-> None]
    /\ cache_dirty = [h \in Handles |-> FALSE]
    /\ lastKind = [h \in Handles |-> "new"]
    /\ nfetch = [h \in Handles |-> 0]
    /\ nfetchok = [h \in Handles |-> 0]
    /\ last = NoOp
    /\ hpc = "idle"
    /\ hreqs = <<>>
    /\ hresps = <<>>
    /\ hframes = <<>>
    /\ hresult = [status |-> "none", items |-> <<>>]
    /\ \E a \in Accounts :
           /\ client = CloudClient(a.email, a.password)
           /\ robotid = [h \in Handles |-> a.robot]
    /\ maps = <<>>

NextClient ==
    \/ \E h \in Handles : PageResponseFrom(h, BarePages)
    \/ /\ hpc = "idle" /\ hreqs = <<>> /\ maps = <<>>
       /\ \/ \E h \in Handles : GetRobots(h)
          \/ \E h \in Handles : Read(h, "getstatus")
          \/ \E h \in Handles, op \in CleanOps : CleanCommand(h, op)
          \/ \E h \in Handles : SetPowerMode(h, "HIGH")
    \/ /\ hpc = "idle" /\ hreqs = <<>>
       /\ \/ \E h \in Handles : GetMaps(h)
          \/ \E k \in 1..MaxMaps : GetImage(k)
    \/ /\ hpc = "idle" /\ maps = <<>>
       /\ \E h \in Handles : GetCleaningSessions(h)

SpecClient == InitClient /\ [][NextClient]_vars

\* ------------------------------------------------------------ properties: the state cache

\* The snapshot i carries field k with a value (not null).
Carries(i, k) == k \in DOMAIN i /\ i[k] # None

EcoModeOnly(i) == Carries(i, "EcoMode") /\ ~Carries(i, "PowerMode")

\* C1, as stated: after any call of a mutating command on a handle, whether it
\* succeeded or failed, the next snapshot read on the handle fetches from the
\* backend.
C1_AnyCommandCallInvalidates ==
    (last.reads = 1 /\ last.after \in {"issued", "failed", "refused"}) => last.fetches = 1

\* C1, amended: after any mutating command other than a setpowermode refused
\* as unsupported before anything is sent, whether it succeeded or failed, the
\* next snapshot read on the handle fetches from the backend.
C1_IssuedCommandInvalidates ==
    (last.reads = 1 /\ last.after \in {"issued", "failed"}) => last.fetches = 1

C1_Witness ==
    /\ last.op \in ReadOps
    /\ last.after = "issued"
    /\ last.fetches = 1
    /\ last.fetchok = 1

\* C2, as stated: the snapshot reads on a handle between two commands issue at
\* most one backend fetch in total.
C2_AtMostOneFetch ==
    /\ \A h \in Handles : nfetch[h] <= 1
    /\ last.window <= 1

\* C2, amended: of the snapshot reads on a handle between two commands at most
\* one fetch returns a snapshot (a read whose fetch fails stores nothing, and
\* the next read fetches again); the read that fetched it stores it, and every
\* later read is a cache hit that returns that stored snapshot and fetches
\* nothing.
C2_AtMostOneFetchSucceeds ==
    /\ \A h \in Handles : nfetchok[h] <= 1
    /\ last.windowok <= 1
    /\ (last.reads = 1 /\ last.fetchok = 1) => cache_data[last.h] = last.used
    /\ (last.reads = 1 /\ last.windowok - last.fetchok >= 1) =>
           /\ last.fetches = 0
           /\ last.kept
           /\ last.used = cache_data[last.h]

\* A cache hit that serves a snapshot the backend has since moved away from.
C2_Witness ==
    /\ last.op \in ReadOps
    /\ last.after = "read"
    /\ last.fetches = 0
    /\ last.windowok = 1
    /\ last.raised = "none"
    /\ last.used # robot

\* C3: getpowermode returns the level of the snapshot's PowerMode value if it
\* carries one (EcoMode present or not); otherwise MEDIUM for EcoMode true and
\* HIGH for EcoMode false; MEDIUM if it carries neither.
C3_PowerModeResolution ==
    (last.op = "getpowermode" /\ last.used # None) =>
        /\ last.raised = "none"
        /\ last.ret.t = "enum"
        /\ IF Carries(last.used, "PowerMode")
           THEN /\ last.ret.v \in PowerModes
                /\ PowerModeValue(last.ret.v) = last.used["PowerMode"].v
           ELSE IF Carries(last.used, "EcoMode")
           THEN last.ret.v = (IF last.used["EcoMode"].v THEN "MEDIUM" ELSE "HIGH")
           ELSE last.ret.v = "MEDIUM"

\* PowerMode LOW wins over an EcoMode field that alone would mean HIGH.
C3_Witness ==
    /\ last.op = "getpowermode"
    /\ last.used # None
    /\ Carries(last.used, "PowerMode")
    /\ Carries(last.used, "EcoMode")
    /\ last.used["PowerMode"].v = 1
    /\ ~last.used["EcoMode"].v
    /\ last.ret = [t |-> "enum", v |-> "LOW"]

\* C4: setpowermode(LOW) on a robot whose snapshot carries EcoMode and no
\* PowerMode raises the unsupported-operation error and sends nothing.
C4_LowOnEcoModeRobotRefused ==
    (last.op = "setpowermode" /\ last.arg = "LOW" /\ last.used # None
        /\ EcoModeOnly(last.used)) =>
        /\ last.raised = "Unsupported"
        /\ last.cmds = <<>>
        /\ last.frames = <<>>
        /\ last.wslog = <<>>

C4_Witness ==
    /\ last.op = "setpowermode"
    /\ last.arg = "LOW"
    /\ last.used # None
    /\ EcoModeOnly(last.used)
    /\ last.raised = "Unsupported"

\* C5: setpowermode(m) sends one command whose body follows the snapshot's
\* representation: PowerMode: the code of m on a robot that carries PowerMode;
\* EcoMode: true for MEDIUM and false for HIGH on a robot that carries only
\* EcoMode.  The frame that goes out is that command's, the cache is dirty
\* afterwards and the next read fetches.
C5_WireForm ==
    /\ (last.op = "setpowermode" /\ last.used # None) =>
           /\ Carries(last.used, "PowerMode") =>
                  last.cmds = <<[PowerMode |-> PowerModeValue(last.arg)]>>
           /\ (EcoModeOnly(last.used) /\ last.arg = "MEDIUM") =>
                  last.cmds = <<[EcoMode |-> TRUE]>>
           /\ (EcoModeOnly(last.used) /\ last.arg = "HIGH") =>
                  last.cmds = <<[EcoMode |-> FALSE]>>
           /\ last.cmds # <<>> =>
                  /\ last.frames \in {<<>>, <<Frame(last.cmds[1])>>}
                  /\ last.raised = "none" => last.frames = <<Frame(last.cmds[1])>>
                  /\ cache_dirty[last.h]
    /\ (last.reads = 1 /\ last.after = "issued") => last.fetches = 1

C5_Witness ==
    /\ last.op = "setpowermode"
    /\ last.arg = "HIGH"
    /\ last.used # None
    /\ EcoModeOnly(last.used)
    /\ last.frames = <<Frame([EcoMode |-> FALSE])>>
    /\ last.raised = "none"
    /\ cache_dirty[last.h]

\* C10: a snapshot read whose fetch fails raises the failure after that one
\* fetch and leaves the stored snapshot and the dirty flag as they were; a
\* command whose connect, send or receive fails leaves the cache dirty.
C10_FailedReadKeepsFailedCommandDirties ==
    /\ (last.reads = 1 /\ last.fetches >= 1 /\ last.fetchok = 0) =>
           /\ last.fetches = 1
           /\ last.raised = "TransportError"
           /\ last.kept
           /\ last.cmds = <<>>
    /\ (last.cmds # <<>> /\ last.raised # "none") => cache_dirty[last.h]

\* A read fails on a cache that a command has left dirty with a snapshot in it.
C10_Witness ==
    /\ last.op \in ReadOps
    /\ last.after = "issued"
    /\ last.raised = "TransportError"
    /\ cache_data[last.h] # None
    /\ cache_dirty[last.h]

\* ------------------------------------------------------------ properties: the cleaning history

\* The backend items of the pages received so far, in the order received.
ReceivedItems ==
    LET F[n \in 0..Len(hresps)] ==
            IF n = 0 THEN <<>>
            ELSE IF hresps[n].status = 200 THEN F[n - 1] \o hresps[n].Items
            ELSE F[n - 1]
    IN  F[Len(hresps)]

CarriesSession(x) == x.CleaningSession # None

\* The list xs is made of the received items that carry a cleaning session,
\* one entry each, in their order.
IsSessionsOfReceived(xs) ==
    LET want == SelectSeq(ReceivedItems, CarriesSession)
    IN  /\ Len(xs) = Len(want)
        /\ \A i \in 1..Len(want) :
               /\ xs[i].timestamp = want[i].TimeStamp
               /\ xs[i].cleaned_area = want[i].CleanedArea
               /\ xs[i].map = want[i].CleaningSession.PersistentMapId
               /\ (xs[i].image = None) = (want[i].CleaningSession.MapImageUrl = None)

\* The responses are pages P1..Pn of which only the last has a null Next.
PagesEndingInNull ==
    /\ hresps # <<>>
    /\ \A k \in 1..Len(hresps) :
           /\ hresps[k].status = 200
           /\ (hresps[k].Next = None) = (k = Len(hresps))

\* C6: given pages P1..Pn of which only Pn has a null Next cursor,
\* getCleaningSessions() returns the list of the items of P1..Pn that carry a
\* cleaning session, in page order and in the order within each page.
C6_ConcatenationOfPages ==
    PagesEndingInNull =>
        /\ hpc = "idle"
        /\ hresult.status = "returned"
        /\ IsSessionsOfReceived(hresult.items)

\* Three pages of one item each, the item of the second without a session.
C6_Witness ==
    /\ PagesEndingInNull
    /\ Len(hresps) = 3
    /\ \A k \in 1..3 : Len(hresps[k].Items) = 1
    /\ ~CarriesSession(hresps[2].Items[1])
    /\ Len(hresult.items) = 2
    /\ hresult.items[1].timestamp = 1
    /\ hresult.items[2].timestamp = 3

\* C7: the first page request carries no cursor; every later one carries the
\* Next cursor of the response before it and is made once that response is
\* there; after a response without a Next cursor no request is made.
C7_CursorFollowedInSequence ==
    /\ Len(hreqs) <= Len(hresps) + 1
    /\ hreqs # <<>> => hreqs[1].Next = None
    /\ \A k \in 2..Len(hreqs) :
           /\ hresps[k - 1].status = 200
           /\ hresps[k - 1].Next # None
           /\ hreqs[k].Next = hresps[k - 1].Next
    /\ \A k \in 1..Len(hresps) :
           (hresps[k].status # 200 \/ hresps[k].Next = None) => Len(hreqs) = k

\* A third request that carries cursor B after a second that carried A.
C7_Witness ==
    /\ Len(hreqs) = 3
    /\ hreqs[2].Next = JStr("A")
    /\ hreqs[3].Next = JStr("B")
    /\ Len(hresps) = 2

\* A response names a cursor that a request of this call has carried already.
CursorCycles ==
    \E k \in 1..Len(hresps) :
        /\ hresps[k].status = 200
        /\ hresps[k].Next # None
        /\ \E j \in 1..k : j <= Len(hreqs) /\ hreqs[j].Next = hresps[k].Next

\* C8: a call that the backend leads into a cursor cycle ends on its own: it
\* is not still asking for pages after the MaxRequests requests followed here.
C8_EndsOnCursorCycle == ~(CursorCycles /\ hpc = "cut")

\* C9: a 204 response ends the call without an error and without a further
\* request: the call returns the sessions of the pages before it, the empty
\* list when it answers the first request.
C9_NoContentIsTerminalPage ==
    \A k \in 1..Len(hresps) :
        hresps[k].status = 204 =>
            /\ k = Len(hresps)
            /\ Len(hreqs) = k
            /\ hpc = "idle"
            /\ hresult.status = "returned"
            /\ IsSessionsOfReceived(hresult.items)
            /\ k = 1 => hresult.items = <<>>

\* A 204 answers the second request after a page with a session.
C9_Witness ==
    /\ Len(hresps) = 2
    /\ hresps[2].status = 204
    /\ hresps[1].status = 200
    /\ Len(hresult.items) = 1
    /\ hresult.status = "returned"

\* ------------------------------------------------------------ properties: two handles

\* A step in which a command method is called on handle g: every operation
\* leaves its record in last.
CommandThrough(g) ==
    /\ last'.h = g
    /\ last'.op \in CleanOps \cup {"setpowermode"}

\* C11: a command through one handle leaves the stored snapshot and the dirty
\* flag of every other handle of the same robot as they were; and a handle
\* that has fetched a snapshot since its own latest command keeps serving
\* that snapshot, without a fetch, whatever the other handle has sent since.
C11_CommandMarksOnlyItsOwnHandle ==
    /\ [][\A g \in TwoHandles : \A h \in TwoHandles \ {g} :
             CommandThrough(g) =>
                 /\ cache_data'[h] = cache_data[h]
                 /\ cache_dirty'[h] = cache_dirty[h]]_vars
    /\ []((last.reads = 1 /\ last.windowok - last.fetchok >= 1) =>
             /\ last.fetches = 0
             /\ last.kept
             /\ last.used = cache_data[last.h])

\* h2 reads from its cache a snapshot that a command through h1 has made
\* stale: h1 is dirty, h2 is not.
C11_Witness ==
    /\ last.h = "h2"
    /\ last.op \in ReadOps
    /\ last.fetches = 0
    /\ last.raised = "none"
    /\ last.used # robot
    /\ lastKind["h1"] = "issued"
    /\ cache_dirty["h1"]
    /\ ~cache_dirty["h2"]
    /\ cache_data["h2"] = last.used

\* ------------------------------------------------------------ properties: no expiry

\* The cache of h answers a read without a fetch.
Valid(h) == cache_data[h] # None /\ ~cache_dirty[h]

\* C12: a stored snapshot stops being valid only in a step that is a command
\* through its handle, never in a step in which the backend moves on or
\* nothing happens; and a read that follows reads only, however much the
\* backend has changed meanwhile, is a cache hit once a snapshot is stored.
C12_OnlyCommandsInvalidate ==
    /\ [][\A h \in Handles :
             (Valid(h) /\ ~(cache_data'[h] # None /\ ~cache_dirty'[h])) =>
                 CommandThrough(h)]_vars
    /\ []((last.op \in ReadOps /\ last.after = "read"
              /\ last.windowok - last.fetchok >= 1) =>
             /\ last.fetches = 0
             /\ last.kept
             /\ Valid(last.h))

\* getstatus answers from the cache with a status the backend has since left.
C12_Witness ==
    /\ last.op = "getstatus"
    /\ last.after = "read"
    /\ last.fetches = 0
    /\ last.raised = "none"
    /\ last.ret.v # RobotStates(robot["RobotStatus"].v)
    /\ Valid(last.h)

\* ------------------------------------------------------------ properties: the command connection

\* How often call c was made on the socket, failed or not.
Calls(wslog, c) ==
    Cardinality({k \in 1..Len(wslog) : wslog[k] \in {c, c \o "!"}})

\* The socket of the log is connected at the end of it.
LeftOpen(wslog) ==
    \E k \in 1..Len(wslog) :
        /\ wslog[k] = "connect"
        /\ \A j \in (k + 1)..Len(wslog) : wslog[j] # "close"

\* C13: a command that is issued works on one socket of its own: it connects
\* once, sends at most one frame and only when connected, receives at most one
\* frame and only after the send, and closes last of all on every path: when
\* the command returns (then after exactly connect, send, receive) and when
\* connect, send or receive fails.
C13_ConnectionLifecycle ==
    /\ last.cmds # <<>> =>
           /\ Len(last.cmds) = 1
           /\ last.wslog # <<>>
           /\ last.wslog[1] \in {"connect", "connect!"}
           /\ last.wslog[Len(last.wslog)] = "close"
           /\ Calls(last.wslog, "connect") = 1
           /\ Calls(last.wslog, "close") = 1
           /\ Calls(last.wslog, "send") <= 1
           /\ Calls(last.wslog, "recv") <= 1
           /\ Len(last.frames) <= 1
           /\ last.frames # <<>> => last.wslog[2] = "send"
           /\ Calls(last.wslog, "recv") = 1 => last.wslog[2] = "send"
           /\ ~LeftOpen(last.wslog)
           /\ last.raised = "none" =>
                  /\ last.wslog = <<"connect", "send", "recv", "close">>
                  /\ Len(last.frames) = 1
           /\ last.raised # "none" => \E k \in 1..Len(last.wslog) :
                  last.wslog[k] \in {"connect!", "send!", "recv!"}
    /\ last.cmds = <<>> => last.wslog = <<>>

\* A command whose receive failed after its frame went out.
C13_Witness ==
    /\ last.op \in CleanOps
    /\ last.wslog = <<"connect", "send", "recv!", "close">>
    /\ last.raised = "TransportError"
    /\ Len(last.frames) = 1

\* ------------------------------------------------------------ properties: what goes out

\* C14: a cleaning command asks for one connection, with the account's
\* e-mail and password credential and the robot id of its handle in the
\* header, and sends on it at most one frame, exactly one when it returns:
\* {Type: 1, Command: "AppUpdate", Body: {CleaningCommand: c}} with c = 1 for
\* startclean, 3 for gohome, 4 for pauseclean, 5 for stopclean.
C14_CleaningCommandFrame ==
    last.op \in CleanOps =>
        LET c == CASE last.op = "startclean" -> 1
                   [] last.op = "gohome" -> 3
                   [] last.op = "pauseclean" -> 4
                   [] last.op = "stopclean" -> 5
            frame == [Type |-> 1, Command |-> "AppUpdate", Body |-> [CleaningCommand |-> c]]
        IN  /\ last.frames \in {<<>>, <<frame>>}
            /\ last.raised = "none" => last.frames = <<frame>>
            /\ Calls(last.wslog, "send") <= 1
            /\ Len(last.sent) = 1
            /\ last.sent[1].method = "CONNECT"
            /\ last.sent[1].header =
                   [AccountPassword |-> client.credentials.AccountPassword,
                    Email |-> client.credentials.Email,
                    RobotId |-> robotid[last.h]]
            /\ client.credentials.AccountPassword = chksum(client.given)

\* gohome has returned on the handle of robot2.
C14_Witness ==
    /\ last.op = "gohome"
    /\ last.raised = "none"
    /\ robotid[last.h] = "robot2"
    /\ last.sent[1].header.RobotId = "robot2"
    /\ last.frames = <<[Type |-> 1, Command |-> "AppUpdate", Body |-> [CleaningCommand |-> 3]]>>

\* The fields of a request body or socket header that carry account data.
AccountKeys == {"AccountPassword", "Email"}

\* The account data in the fields of record d is the e-mail address and the
\* transformed password, and no field holds the password as given.
OnlyChksum(d) ==
    \A k \in DOMAIN d \cap AccountKeys :
        /\ d[k] # client.given
        /\ k = "AccountPassword" => d[k] = chksum(client.given)

\* Message m carries the password in its transformed form only.
NoCleartext(m) ==
    /\ ("auth" \in DOMAIN m /\ m.auth # None) =>
           /\ m.auth.password = chksum(client.given)
           /\ m.auth.password # client.given
           /\ m.auth.username # client.given
    /\ "json" \in DOMAIN m => OnlyChksum(m.json)
    /\ "header" \in DOMAIN m => OnlyChksum(m.header)

\* C15: no request body, basic-auth credential or socket header that the
\* client or its robots and maps send out holds the password as it was given
\* to the constructor; each holds chksum(password).  The frames of a command
\* carry no account data at all.
C15_PasswordNeverInCleartext ==
    /\ \A k \in 1..Len(last.sent) : NoCleartext(last.sent[k])
    /\ \A k \in 1..Len(hreqs) : OnlyChksum(hreqs[k])
    /\ \A k \in 1..Len(last.frames) :
           DOMAIN last.frames[k].Body \cap AccountKeys = {}
    /\ chksum(client.given) # client.given

\* setpowermode has fetched the snapshot and connected: a request with
\* basic-auth and a body, and a socket header, both of the second account.
C15_Witness ==
    /\ last.op = "setpowermode"
    /\ Len(last.sent) = 2
    /\ client.given = JStr("secret2")
    /\ last.sent[1].auth.password = chksum(JStr("secret2"))
    /\ last.sent[1].json.AccountPassword = chksum(JStr("secret2"))
    /\ last.sent[2].header.AccountPassword = chksum(JStr("secret2"))

\* ------------------------------------------------------------ properties: maps

\* The map objects ms are those of the listing js: one per entry, in its
\* order, each with the zones of its own entry in their order, and each zone
\* owned by the map object made of the entry that lists it.
BuiltFromListing(ms, js, h) ==
    /\ Len(ms) = Len(js)
    /\ \A k \in 1..Len(js) :
           /\ ms[k].robot = h
           /\ ms[k].id = js[k].Id
           /\ ms[k].interactiveid = js[k].InteractiveId
           /\ ms[k].name = js[k].Name
           /\ ms[k].image = None
           /\ Len(ms[k].zones) = Len(js[k].Zones)
           /\ \A z \in 1..Len(js[k].Zones) :
                  /\ ms[k].zones[z].map = k
                  /\ ms[k].zones[z].id = js[k].Zones[z].Id
                  /\ ms[k].zones[z].name = js[k].Zones[z].Name
                  /\ ms[k].zones[z].type = js[k].Zones[z].ZoneType
                  /\ ms[k].zones[z].roomcategory = js[k].Zones[z].RoomCategory

\* Message m asks for the image of a map.
IsImageRequest(m) == m.method = "GET" /\ Len(m.url) = 5 /\ m.url[4] = "/interactivemaps/"

\* C16: getMaps makes one request, for the listing, and the maps it returns
\* are built of the listing alone, in its order; every zone of a held map is
\* owned by that map; an image is requested by getImage only, with one
\* request that names a held map, and getImage returns the JSON it received
\* as it is.
C16_MapsFromListingImagesOnDemand ==
    /\ last.op = "getMaps" =>
           /\ last.sent =
                  <<[method |-> "GET",
                     url |-> <<client.apiurl, "/robots/", robotid[last.h], "/interactivemaps">>,
                     auth |-> client.httpauth]>>
           /\ last.raised = "none" => BuiltFromListing(maps, last.got, last.h)
    /\ \A k \in 1..Len(maps) :
           /\ maps[k].image = None
           /\ \A z \in 1..Len(maps[k].zones) : maps[k].zones[z].map = k
    /\ \A n \in 1..Len(last.sent) :
           IsImageRequest(last.sent[n]) =>
               /\ last.op = "getImage"
               /\ Len(last.sent) = 1
               /\ \E k \in 1..Len(maps) :
                      /\ last.sent[n].url[5] = maps[k].id
                      /\ last.sent[n].url[3] = robotid[maps[k].robot]
    /\ last.op = "getImage" =>
           /\ Len(last.sent) = 1
           /\ IsImageRequest(last.sent[1])
           /\ last.raised = "none" => last.ret = last.got

\* The image of the second of two maps, listed in descending order with two
\* zones each, is returned as received.
C16_Witness ==
    /\ last.op = "getImage"
    /\ last.raised = "none"
    /\ last.got # None
    /\ last.ret = last.got
    /\ Len(maps) = 2
    /\ maps[1].id = <<"map", 2>>
    /\ maps[2].id = <<"map", 1>>
    /\ last.sent[1].url[5] = <<"map", 1>>
    /\ Len(maps[1].zones) = 2
    /\ Len(maps[2].zones) = 2
    /\ maps[2].zones[1].map = 2
    /\ maps[2].zones[1].id = maps[1].zones[1].id

\* ------------------------------------------------------------ properties: coherence on one handle

\* A step in which a read method returns a value: the backend is as it was,
\* and the operation of the step is a read that did not raise.
ReadReturns ==
    /\ robot' = robot
    /\ pending' = pending
    /\ last'.op \in ReadOps
    /\ last'.raised = "none"

\* C17, as stated: the robot's state at the backend changing through the
\* commands of the one handle only, every read that returns is made of the
\* backend's current state.
C17_ReadsReturnCurrentState ==
    [][ReadReturns => last'.used = robot']_vars

\* C17, amended: every read that returns is made of a snapshot fetched after
\* the latest command issued through the handle; and of the backend's current
\* state, as long as the backend has applied no command later than it
\* answered it.
C17_ReadsAfterCommandRefetch ==
    /\ []((last.op \in ReadOps /\ last.raised = "none") =>
             /\ last.windowok = 1
             /\ last.after = "issued" => last.fetchok = 1
             /\ last.used = cache_data[last.h])
    /\ [][(ReadReturns /\ pending' # Landed) => last'.used = robot']_vars

\* getstatus reports the robot cleaning after a startclean whose answer was
\* not received: the read has fetched.
C17_Witness ==
    /\ last.op = "getstatus"
    /\ last.after = "issued"
    /\ last.fetchok = 1
    /\ last.ret.v = "Cleaning"
    /\ last.used = robot
    /\ pending = None

\* ------------------------------------------------------------ properties: power-mode round trip

\* The latest operation is a setpowermode that returned, and the backend's
\* robot is as the body it sent makes it.
ModeSetAndApplied ==
    /\ last.op = "setpowermode"
    /\ last.raised = "none"
    /\ Len(last.cmds) = 1
    /\ robot = ApplyBody(robot, last.cmds[1])

\* C18: a getpowermode that returns, right after a setpowermode(m) on the
\* same handle that returned and whose body the backend has applied,
\* returns m: for LOW, MEDIUM and HIGH on a robot that reports PowerMode, for
\* MEDIUM and HIGH on one that reports EcoMode only (setpowermode(LOW) does
\* not return there).
C18_PowerModeRoundTrip ==
    [][(/\ ModeSetAndApplied
        /\ robot' = robot
        /\ last'.op = "getpowermode"
        /\ last'.h = last.h
        /\ last'.raised = "none")
       => /\ last'.ret = [t |-> "enum", v |-> last.arg]
          /\ last'.fetchok = 1
          /\ ("PowerMode" \notin DOMAIN robot \/ robot.PowerMode = None)
                => last.arg \in {"MEDIUM", "HIGH"}]_vars

\* getpowermode returns LOW right after a setpowermode(LOW) that returned.
C18_Witness ==
    /\ last.op = "getpowermode"
    /\ last.raised = "none"
    /\ last.modeset = "LOW"
    /\ last.ret = [t |-> "enum", v |-> "LOW"]
    /\ last.used = robot

\* ------------------------------------------------------------ properties: failed page requests

\* The k-th page request of the call failed.
PageFailed(k) == hresps[k].status = 0

\* C19: a page request of getCleaningSessions() that fails, the first or a
\* later one, is the last request of the call; the call has raised, has
\* returned no items of the pages before it, and asks for no page again.
C19_FailedPagePropagates ==
    \A k \in 1..Len(hresps) :
        PageFailed(k) =>
            /\ k = Len(hresps)
            /\ Len(hreqs) = k
            /\ hpc = "idle"
            /\ hframes = <<>>
            /\ hresult = [status |-> "raised", items |-> <<>>]

\* The third page request fails after two pages that carried sessions.
C19_Witness ==
    /\ Len(hresps) = 3
    /\ PageFailed(3)
    /\ hresps[1].status = 200 /\ PageItems(hresps[1].Items) # <<>>
    /\ hresps[2].status = 200 /\ PageItems(hresps[2].Items) # <<>>
    /\ hresult.status = "raised"

\* ------------------------------------------------------------ properties: retrieval and the cache

RetrievalOps == {"getCleaningSessions", "getMaps", "getImage"}

\* A step of getCleaningSessions (its call, or the arrival of a page), of
\* getMaps or of getImage.
RetrievalStep ==
    \/ histvars' # histvars
    \/ last' # last /\ last'.op \in RetrievalOps

\* The request m is the snapshot fetch of _getinfo_inner.
IsSnapshotFetch(m) == m.url = <<client.apiurl, "/robots/AppUpdate">>

\* C20: a step of getCleaningSessions(), getMaps() or CloudMap.getImage(),
\* whether it succeeds or fails, leaves every handle's stored snapshot and
\* dirty flag as they were and makes no snapshot fetch.
C20_RetrievalLeavesCacheAlone ==
    [][RetrievalStep =>
          /\ cache_data' = cache_data
          /\ cache_dirty' = cache_dirty
          /\ nfetch' = nfetch /\ nfetchok' = nfetchok
          /\ last'.fetches = 0 /\ last'.reads = 0
          /\ \A i \in 1..Len(last'.sent) : ~IsSnapshotFetch(last'.sent[i])]_vars

\* getImage has failed on a map of a handle whose cache holds a snapshot
\* that a command has marked.
C20_Witness ==
    /\ last.op = "getImage"
    /\ last.raised = "TransportError"
    /\ cache_data[last.h] # None
    /\ cache_dirty[last.h]

\* ------------------------------------------------------------ properties: robots without a power mode

\* The snapshot i is one, and carries neither a PowerMode nor an EcoMode field.
NeitherField(i) ==
    /\ i # None
    /\ "PowerMode" \notin DOMAIN i
    /\ "EcoMode" \notin DOMAIN i

\* The latest operation is a setpowermode that got such a snapshot.
SetOnNeitherField == last.op = "setpowermode" /\ NeitherField(last.used)

\* C21: setpowermode(m) on a robot whose snapshot carries neither a PowerMode
\* nor an EcoMode field raises, for every m, without opening a connection or
\* sending a frame, and leaves the cache holding that snapshot, not marked;
\* getpowermode makes MEDIUM of the same snapshot, and a getpowermode that
\* follows the rejected call returns MEDIUM from the cache, without a fetch.
C21_NoPowerModeFieldRefused ==
    /\ [](SetOnNeitherField =>
             /\ last.raised = "Unsupported"
             /\ last.cmds = <<>> /\ last.wslog = <<>> /\ last.frames = <<>>
             /\ ~last.marked
             /\ ~cache_dirty[last.h]
             /\ cache_data[last.h] = last.used
             /\ getpowermode(last.used) = "MEDIUM")
    /\ [][(/\ SetOnNeitherField
            /\ last'.op = "getpowermode"
            /\ last'.h = last.h)
           => /\ last'.raised = "none"
              /\ last'.ret = [t |-> "enum", v |-> "MEDIUM"]
              /\ last'.fetches = 0
              /\ last'.used = last.used]_vars

\* setpowermode(MEDIUM) has been refused on a robot without either field,
\* after a fetch of its snapshot.
C21_Witness ==
    /\ SetOnNeitherField
    /\ last.arg = "MEDIUM"
    /\ last.raised = "Unsupported"
    /\ last.fetchok = 1
    /\ ~cache_dirty[last.h]

====
